---------------------------- MODULE Spec2Model ----------------------------
(***************************************************************************)
(* A state-machine model of the software renderer "Shaders":               *)
(*   - Camera (camera.rs): eye / center / up / has_changed and its API     *)
(*   - Color (color.rs): 8-bit channel arithmetic and hex conversion       *)
(*   - render and the frame loop of main (main.rs)                         *)
(*                                                                         *)
(* f32 values are modelled in fixed point: lengths in 1/100 units, angles  *)
(* and sine/cosine values in 1/1000 (milliradians).  An f32 NaN vector is  *)
(* the empty tuple NaNVec.                                                  *)
(***************************************************************************)
EXTENDS Integers, Sequences, FiniteSets, TLC

VARIABLES
  \* ---- Camera API (camera.rs)
  camera,       \* the Camera: [eye, center, up, has_changed]
  lastOp,       \* name of the last camera method called ("new" after construction)
  lastArg,      \* argument of the last move_center / move_up / zoom call
  lastRet,      \* value returned by the last check_if_changed() call
  new_pitch,    \* <<p>>: the pitch the last orbit() rebuilt the eye from; <<>>: none / NaN
  nOps,         \* number of camera API calls made so far (bounded by MaxOps)
  \* ---- main's frame loop (main.rs:189-347)
  pc,               \* where main is: "loop", "input", "clear", "moon", "render", "present", "done"
  time,             \* main's frame counter
  keys,             \* the keys the window reports down in this iteration
  moon_angle,       \* the moon's phase accumulator
  celestial_bodies, \* the body table
  body_index,       \* position of the render loop in the body table
  uniforms,         \* the shared Uniforms: parameters of the model and view matrices, time
  drawn,            \* the bodies rendered into the framebuffer since its last clear
  presented,        \* the framebuffer content handed to the window at the last present
  frameLog,         \* the steps the current iteration has performed, in order
  \* ---- render (main.rs:149-187)
  framebuffer,      \* the Framebuffer render writes into
  vertex_array,     \* the vertex array of the last render call
  triangles,        \* the triangles its primitive assembly built
  fragments,        \* the fragments its rasterization stage collected
  point_calls,      \* the framebuffer.point calls its fragment stage made
  nRenders,         \* render calls made by RenderSpec's caller (bounded by MaxRenders)
  \* ---- Color (color.rs)
  color_a,          \* the colour a method is called on (self)
  color_b,          \* the colour passed to a blend method
  hex,              \* a u32 hex value: an input of from_hex, or the last to_hex result
  hex_from,         \* "input", or "to_hex" when hex is to_hex(color_a)
  color_op,         \* the Color method applied last ("none" before any)
  color_out         \* the colour the last blend_add / blend_subtract / from_hex returned

camObs == <<lastOp, lastArg, lastRet, new_pitch, nOps>>
frameVars == <<pc, time, keys, moon_angle, celestial_bodies, body_index, uniforms,
               drawn, presented, frameLog>>
renderVars == <<framebuffer, vertex_array, triangles, fragments, point_calls, nRenders>>
colorVars == <<color_a, color_b, hex, hex_from, color_op, color_out>>
vars == <<camera, lastOp, lastArg, lastRet, new_pitch, nOps,
          pc, time, keys, moon_angle, celestial_bodies, body_index, uniforms,
          drawn, presented, frameLog,
          framebuffer, vertex_array, triangles, fragments, point_calls, nRenders,
          color_a, color_b, hex, hex_from, color_op, color_out>>

---------------------------------------------------------------------------
(* Bounds of the model *)

\* camera API calls explored from the constructed camera
MaxOps == 3
\* iterations of the frame loop explored
MaxFrames == 2
\* iterations of the frame loop explored under the key states of PoseKeySets
MaxInputFrames == 5
\* vertices of the mesh handed to render
MaxVerts == 7
\* vertices of the mesh main loads and renders every body with
MeshVerts == 3
\* render calls explored on one framebuffer
MaxRenders == 2
\* framebuffer size, in pixels
FbWidth == 2
FbHeight == 2
\* channel values 0..ChanEdge and 255-ChanEdge..255 are explored (with 127, 128)
ChanEdge == 1

---------------------------------------------------------------------------
(* Fixed-point f32 *)

\* 1.0 as a length
FP == 100
\* 1.0 as an angle (radian) and as a sine/cosine value
AU == 1000
\* std::f32::consts::PI in angle units
PI_ == 3142
HALF_PI == PI_ \div 2
TWO_PI == 2 * PI_

Abs(a) == IF a < 0 THEN -a ELSE a

\* a / b rounded to the nearest integer (b > 0)
RDiv(a, b) == IF a >= 0 THEN (2 * a + b) \div (2 * b)
                        ELSE -((2 * (-a) + b) \div (2 * b))

\* f32 `%`: remainder with the sign of the dividend
TruncRem(a, b) == IF a >= 0 THEN a % b ELSE -((-a) % b)

\* f32::clamp
Clamp(a, lo, hi) == IF a < lo THEN lo ELSE IF a > hi THEN hi ELSE a

RECURSIVE SqrtBisect(_, _, _)
SqrtBisect(n, lo, hi) ==
  IF hi - lo <= 1 THEN lo
  ELSE LET mid == (lo + hi) \div 2
       IN IF mid * mid <= n THEN SqrtBisect(n, mid, hi) ELSE SqrtBisect(n, lo, mid)

\* f32::sqrt, rounded to the nearest fixed-point value
Sqrt(n) ==
  LET r == SqrtBisect(n, 0, 46341)
  IN IF n - r * r > r THEN r + 1 ELSE r

\* sine of an angle in [0, pi/2], by its Taylor polynomial up to x^7
SinQ(x) ==
  LET x2 == RDiv(x * x, AU)
      x3 == RDiv(x2 * x, AU)
      x5 == RDiv(x3 * x2, AU)
      x7 == RDiv(x5 * x2, AU)
  IN Clamp(x - RDiv(x3, 6) + RDiv(x5, 120) - RDiv(x7, 5040), 0, AU)

\* f32::sin
Sin(a) ==
  LET r == a % TWO_PI
      h == IF r > PI_ THEN r - PI_ ELSE r
      q == IF h > HALF_PI THEN PI_ - h ELSE h
  IN IF r > PI_ THEN -SinQ(q) ELSE SinQ(q)

\* f32::cos
Cos(a) == Sin(a + HALF_PI)

\* the largest angle a in [lo, hi) with ay*cos(a) - ax*sin(a) >= 0
RECURSIVE AtanBisect(_, _, _, _)
AtanBisect(ay, ax, lo, hi) ==
  IF hi - lo <= 1 THEN lo
  ELSE LET mid == (lo + hi) \div 2
       IN IF ay * Cos(mid) - ax * Sin(mid) >= 0
          THEN AtanBisect(ay, ax, mid, hi)
          ELSE AtanBisect(ay, ax, lo, mid)

\* f32::atan2: y.atan2(x), in [-pi, pi]
Atan2(y, x) ==
  IF x = 0 /\ y = 0 THEN 0
  ELSE LET q == AtanBisect(Abs(y), Abs(x), 0, HALF_PI + 1)
       IN IF x >= 0 THEN (IF y >= 0 THEN q ELSE -q)
                    ELSE (IF y >= 0 THEN PI_ - q ELSE -(PI_ - q))

---------------------------------------------------------------------------
(* Vec3 *)

\* a vector whose components are NaN
NaNVec == <<>>

Vec3(x, y, z) == <<x, y, z>>

IsNaN(v) == v = NaNVec

VAdd(a, b) == IF IsNaN(a) \/ IsNaN(b) THEN NaNVec
              ELSE <<a[1] + b[1], a[2] + b[2], a[3] + b[3]>>

VSub(a, b) == IF IsNaN(a) \/ IsNaN(b) THEN NaNVec
              ELSE <<a[1] - b[1], a[2] - b[2], a[3] - b[3]>>

\* Vec3::magnitude of a finite vector
Magnitude(v) == Sqrt(v[1] * v[1] + v[2] * v[2] + v[3] * v[3])

\* Vec3::normalize: v / |v|, in sine/cosine units; 0/0 is NaN
Normalize(v) ==
  IF IsNaN(v) THEN NaNVec
  ELSE LET m == Magnitude(v)
       IN IF m = 0 THEN NaNVec
          ELSE <<RDiv(v[1] * AU, m), RDiv(v[2] * AU, m), RDiv(v[3] * AU, m)>>

\* direction * delta: a unit vector times a length
VScale(d, delta) ==
  IF IsNaN(d) THEN NaNVec
  ELSE <<RDiv(d[1] * delta, AU), RDiv(d[2] * delta, AU), RDiv(d[3] * delta, AU)>>

---------------------------------------------------------------------------
(* Color (color.rs) *)

RECURSIVE BitAnd(_, _)
\* a & b on non-negative integers
BitAnd(a, b) ==
  IF a = 0 \/ b = 0 THEN 0
  ELSE ((a % 2) * (b % 2)) + 2 * BitAnd(a \div 2, b \div 2)

RECURSIVE BitOr(_, _)
\* a | b on non-negative integers
BitOr(a, b) ==
  IF a = 0 THEN b
  ELSE IF b = 0 THEN a
  ELSE (IF a % 2 = 1 \/ b % 2 = 1 THEN 1 ELSE 0) + 2 * BitOr(a \div 2, b \div 2)

RECURSIVE Pow2(_)
Pow2(k) == IF k = 0 THEN 1 ELSE 2 * Pow2(k - 1)

\* a << k and a >> k; the operands used stay below 2^31
Shl(a, k) == a * Pow2(k)
Shr(a, k) == a \div Pow2(k)

\* integer casts
AsU8(a) == a % 256
AsU16(a) == a % 65536
\* i16 from a value in -32768..65535
AsI16(a) == IF a % 65536 >= 32768 THEN (a % 65536) - 65536 ELSE a % 65536
Min(a, b) == IF a < b THEN a ELSE b
Max(a, b) == IF a > b THEN a ELSE b

\* Color::new
Color(r, g, b) == [r |-> r, g |-> g, b |-> b]

\* Color::from_hex
from_hex(h) ==
  Color(AsU8(BitAnd(Shr(h, 16), 255)),
        AsU8(BitAnd(Shr(h, 8), 255)),
        AsU8(BitAnd(h, 255)))

\* to_hex with the red channel shifted by 8 like the green one
to_hex_red_shift8(c) ==
  BitOr(BitOr(Shl(c.r, 8), Shl(c.g, 8)), c.b)

\* Color::to_hex
to_hex(c) ==
  BitOr(BitOr(Shl(c.r, 16), Shl(c.g, 8)), c.b)

\* blend_add adding in u8, which wraps around
blend_add_wrapping(c, blend) ==
  Color(AsU8(c.r + blend.r), AsU8(c.g + blend.g), AsU8(c.b + blend.b))

\* Color::blend_add
blend_add(c, blend) ==
  Color(AsU8(Min(AsU16(AsU16(c.r) + AsU16(blend.r)), 255)),
        AsU8(Min(AsU16(AsU16(c.g) + AsU16(blend.g)), 255)),
        AsU8(Min(AsU16(AsU16(c.b) + AsU16(blend.b)), 255)))

\* Color::blend_subtract
blend_subtract(c, blend) ==
  Color(AsU8(Min(Max(AsI16(AsI16(c.r) - AsI16(blend.r)), 0), 255)),
        AsU8(Min(Max(AsI16(AsI16(c.g) - AsI16(blend.g)), 0), 255)),
        AsU8(Min(Max(AsI16(AsI16(c.b) - AsI16(blend.b)), 0), 255)))

---------------------------------------------------------------------------
(* Camera (camera.rs) *)

\* Camera::new
Camera_new(e, c, u) == [eye |-> e, center |-> c, up |-> u, has_changed |-> TRUE]

\* the clamp bounds of orbit's new_pitch: -PI/2 + 0.1 and PI/2 - 0.1
PitchMargin == 100
PitchMin == -HALF_PI + PitchMargin
PitchMax == HALF_PI - PitchMargin

\* orbit: current_yaw of the eye around the center
orbit_current_yaw(cam) ==
  LET radius_vector == VSub(cam.eye, cam.center)
  IN Atan2(radius_vector[3], radius_vector[1])

\* orbit: current_pitch of the eye around the center
orbit_current_pitch(cam) ==
  LET radius_vector == VSub(cam.eye, cam.center)
      radius_xz == Sqrt(radius_vector[1] * radius_vector[1]
                        + radius_vector[3] * radius_vector[3])
  IN Atan2(-radius_vector[2], radius_xz)

\* orbit's new_pitch without the clamp
orbit_new_pitch_unclamped(cam, delta_pitch) ==
  orbit_current_pitch(cam) + delta_pitch

\* orbit: new_pitch, for a finite eye
orbit_new_pitch(cam, delta_pitch) ==
  Clamp(orbit_current_pitch(cam) + delta_pitch, PitchMin, PitchMax)

\* orbit: new_yaw, for a finite eye
orbit_new_yaw(cam, delta_yaw) ==
  TruncRem(orbit_current_yaw(cam) + delta_yaw, TWO_PI)

\* Camera::orbit
orbit(cam, delta_yaw, delta_pitch) ==
  IF IsNaN(cam.eye)
  THEN [cam EXCEPT !.has_changed = TRUE]     \* every term of new_eye is NaN
  ELSE
    LET radius == Magnitude(VSub(cam.eye, cam.center))
        yaw == orbit_new_yaw(cam, delta_yaw)
        pitch == orbit_new_pitch(cam, delta_pitch)
        new_eye == VAdd(cam.center,
                        Vec3(RDiv(RDiv(radius * Cos(yaw), AU) * Cos(pitch), AU),
                             -RDiv(radius * Sin(pitch), AU),
                             RDiv(RDiv(radius * Sin(yaw), AU) * Cos(pitch), AU)))
    IN [cam EXCEPT !.eye = new_eye, !.has_changed = TRUE]

\* Camera::zoom
zoom(cam, delta) ==
  LET direction == Normalize(VSub(cam.center, cam.eye))
  IN [cam EXCEPT !.eye = VAdd(cam.eye, VScale(direction, delta)),
                 !.has_changed = TRUE]

\* Camera::move_center
move_center(cam, movement) ==
  [cam EXCEPT !.center = VAdd(cam.center, movement),
              !.eye = VAdd(cam.eye, movement)]

\* check_if_changed without the clearing assignment
check_if_changed_noclear(cam) ==
  IF cam.has_changed
  THEN [cam |-> cam, ret |-> TRUE]
  ELSE [cam |-> cam, ret |-> FALSE]

\* Camera::check_if_changed: the camera it leaves, and the value it returns
check_if_changed(cam) ==
  IF cam.has_changed
  THEN [cam |-> [cam EXCEPT !.has_changed = FALSE], ret |-> TRUE]
  ELSE [cam |-> cam, ret |-> FALSE]

\* Camera::rotate_pitch (empty body)
rotate_pitch(cam, angle) == cam

\* Camera::rotate_yaw (empty body)
rotate_yaw(cam, angle) == cam

\* move_up that raises the eye and leaves the center
move_up_eye_only(cam, amount) ==
  [cam EXCEPT !.eye = VAdd(cam.eye, Vec3(0, amount, 0))]

\* Camera::move_up
move_up(cam, amount) ==
  [cam EXCEPT !.eye = VAdd(cam.eye, Vec3(0, amount, 0)),
              !.center = VAdd(cam.center, Vec3(0, amount, 0))]

\* Camera::set_bird_eye_view
set_bird_eye_view(cam) ==
  [cam EXCEPT !.eye = Vec3(0, 20 * FP, 0),
              !.center = Vec3(0, 0, 0),
              !.up = Vec3(0, 0, 1 * FP)]

\* the camera main constructs (main.rs:215-219)
InitialCamera == Camera_new(Vec3(0, 0, 5 * FP), Vec3(0, 0, 0), Vec3(0, 1 * FP, 0))

---------------------------------------------------------------------------
(* main: the scene (main.rs:237-296) *)

Body(position, scale, shader_type) ==
  [position |-> position, scale |-> scale, rotation |-> Vec3(0, 0, 0),
   shader_type |-> shader_type]

\* the body table main builds (scales 2.0, 0.3, 0.4, ... in length units)
InitialBodies ==
  << Body(Vec3(0, 0, 0), 2 * FP, "Sun"),
     Body(Vec3(-4 * FP, 0, 0), (3 * FP) \div 10, "Asteroid"),
     Body(Vec3(6 * FP, 0, 0), (4 * FP) \div 10, "RockyPlanet"),
     Body(Vec3(12 * FP, 0, 0), (6 * FP) \div 10, "Earth"),
     Body(Vec3(18 * FP, 0, 0), (5 * FP) \div 10, "CrystalPlanet"),
     Body(Vec3(24 * FP, 0, 0), (7 * FP) \div 10, "FirePlanet"),
     Body(Vec3(30 * FP, 0, 0), 1 * FP, "WaterPlanet"),
     Body(Vec3(36 * FP, 0, 0), (8 * FP) \div 10, "CloudPlanet"),
     Body(Vec3(12 * FP, 0, 2 * FP), (2 * FP) \div 10, "Moon") >>

\* moon_orbit_radius = 2.0
moon_orbit_radius == 2 * FP
\* moon_orbit_speed = 0.05
moon_orbit_speed == (5 * AU) \div 100

\* iter().find(|body| matches!(body.shader_type, t)): index of the first such body, 0 if none
find(bodies, t) ==
  IF \E i \in 1..Len(bodies) : bodies[i].shader_type = t
  THEN CHOOSE i \in 1..Len(bodies) :
         /\ bodies[i].shader_type = t
         /\ \A j \in 1..(i - 1) : bodies[j].shader_type # t
  ELSE 0

\* earth_position: the Earth's position, or the origin when there is no Earth
earth_position(bodies) ==
  IF find(bodies, "Earth") = 0 THEN Vec3(0, 0, 0)
  ELSE bodies[find(bodies, "Earth")].position

\* moon_position at phase `angle`
moon_position(bodies, angle) ==
  VAdd(earth_position(bodies),
       Vec3(RDiv(moon_orbit_radius * Cos(angle), AU),
            0,
            RDiv(moon_orbit_radius * Sin(angle), AU)))

\* the moon update that assigns the new position to the Earth instead
assign_moon_to_earth(bodies, position) ==
  IF find(bodies, "Earth") = 0 THEN bodies
  ELSE [bodies EXCEPT ![find(bodies, "Earth")].position = position]

\* if let Some(moon) = ...find(Moon) { moon.position = moon_position }
assign_moon(bodies, position) ==
  IF find(bodies, "Moon") = 0 THEN bodies
  ELSE [bodies EXCEPT ![find(bodies, "Moon")].position = position]

\* a render loop that walks the body table backwards
render_order_reversed(bodies, k) == Len(bodies) + 1 - k

\* for body in &celestial_bodies: the table index of the k-th body rendered
render_order(bodies, k) == k

\* the parameters render's Uniforms are set from for one body
body_uniforms(body, cam, t) ==
  [model |-> [translation |-> body.position,
              scale |-> body.scale,
              rotation |-> VAdd(body.rotation, Vec3(0, RDiv(t * AU, 100), 0))],
   view |-> [eye |-> cam.eye, center |-> cam.center, up |-> cam.up],
   time |-> t]

\* Uniforms as main constructs them: identity model and view, time 0
InitialUniforms == [model |-> "identity", view |-> "identity", time |-> 0]

---------------------------------------------------------------------------
(* main: handle_input (main.rs:349-402) *)

Keys == {"Escape", "Up", "Down", "W", "S", "A", "D", "Q", "E", "Key1", "Key2", "B"}

\* the key states the window is made to report: no key, each key alone, some pairs
KeySets ==
  {{}} \cup {{k} : k \in Keys}
       \cup {{"W", "A"}, {"W", "S"}, {"Q", "Key1"}, {"Key1", "Key2"}, {"B", "D"}, {"Up", "E"}}

\* the key states reported while more iterations are followed: no key, Escape,
\* the zoom keys, and pans, lifts and the bird's-eye key alone or with another key
PoseKeySets ==
  {{}, {"Escape"}, {"Key1"}, {"Key2"}, {"W", "A"}, {"Q", "Key1"}, {"B", "D"}}

movement_speed == FP \div 2
rotation_speed == PI_ \div 50
zoom_speed == 1 * FP

When(cond, cam1, cam0) == IF cond THEN cam1 ELSE cam0

\* the WASD movement vector
wasd_movement(ks) ==
  Vec3((IF "D" \in ks THEN movement_speed ELSE 0) - (IF "A" \in ks THEN movement_speed ELSE 0),
       0,
       (IF "S" \in ks THEN movement_speed ELSE 0) - (IF "W" \in ks THEN movement_speed ELSE 0))

handle_input(ks, cam) ==
  LET c1 == When("Up" \in ks, rotate_pitch(cam, -rotation_speed), cam)
      c2 == When("Down" \in ks, rotate_pitch(c1, rotation_speed), c1)
      movement == wasd_movement(ks)
      c3 == When(Magnitude(movement) > 0, move_center(c2, movement), c2)
      c4 == When("Q" \in ks, move_up(c3, movement_speed), c3)
      c5 == When("E" \in ks, move_up(c4, -movement_speed), c4)
      c6 == When("Key1" \in ks, zoom(c5, zoom_speed), c5)
      c7 == When("Key2" \in ks, zoom(c6, -zoom_speed), c6)
  IN When("B" \in ks, set_bird_eye_view(c7), c7)

---------------------------------------------------------------------------
(* Framebuffer, as render uses it *)

\* the depth a cleared pixel holds
FarDepth == 1000000
\* framebuffer.set_background_color(0x333355)
BackgroundColor == 3355477

Pixels == 0..(FbWidth * FbHeight - 1)

\* Framebuffer::clear
fb_clear(fb) ==
  [fb EXCEPT !.buffer = [i \in Pixels |-> fb.background_color],
             !.zbuffer = [i \in Pixels |-> FarDepth]]

\* Framebuffer::set_current_color
set_current_color(fb, color) == [fb EXCEPT !.current_color = color]

\* Framebuffer::point
point(fb, x, y, depth) ==
  IF x >= fb.width \/ y >= fb.height THEN fb
  ELSE LET i == y * fb.width + x
       IN IF depth <= fb.zbuffer[i]
          THEN [fb EXCEPT !.buffer[i] = fb.current_color, !.zbuffer[i] = depth]
          ELSE fb

\* the framebuffer main hands to render: created, background set, cleared
InitialFramebuffer ==
  fb_clear([width |-> FbWidth, height |-> FbHeight,
            buffer |-> [i \in Pixels |-> 0], zbuffer |-> [i \in Pixels |-> FarDepth],
            background_color |-> BackgroundColor, current_color |-> 0])

---------------------------------------------------------------------------
(* render (main.rs:149-187) *)

\* vertex_shader: the transformed vertex of a mesh vertex
vertex_shader(vertex) == [transformed |-> vertex]

\* Vertex Shader Stage
vertex_stage(va) == [i \in 1..Len(va) |-> vertex_shader(va[i])]

RECURSIVE assemble(_, _, _)
\* for i in (i0..len).step_by(step) { if i + 2 < len { push [tv[i], tv[i+1], tv[i+2]] } }
assemble(tv, i, step) ==
  IF i >= Len(tv) THEN <<>>
  ELSE (IF i + 2 < Len(tv)
        THEN << <<tv[i + 1], tv[i + 2], tv[i + 3]>> >>
        ELSE <<>>)
       \o assemble(tv, i + step, step)

\* primitive assembly stepping by 2: consecutive triangles share a vertex
primitive_assembly_step2(tv) == assemble(tv, 0, 2)

\* Primitive Assembly Stage
primitive_assembly(tv) == assemble(tv, 0, 3)

\* a fragment: position in half pixels (f32 x, y), depth, and the colour
\* fragment_shader computes for it
Fragment(x, y, depth, shaded) ==
  [position |-> <<x, y>>, depth |-> depth, shaded |-> shaded]

\* what triangle() may return for one triangle: fragments inside the buffer,
\* left of and above it (negative coordinates), right of and below it
RasterOutputs ==
  { <<>>,
    << Fragment(1, 1, 5, Color(255, 0, 0)),
       Fragment(1, 1, 3, Color(0, 255, 0)),
       Fragment(2 * FbWidth - 1, 2 * FbHeight - 1, 5, Color(0, 0, 255)) >>,
    << Fragment(-2, 2, 4, Color(255, 255, 255)),
       Fragment(2, -1, 4, Color(1, 2, 3)) >>,
    << Fragment(2 * FbWidth, 0, 4, Color(9, 9, 9)),
       Fragment(0, 2 * FbHeight, 4, Color(8, 8, 8)),
       Fragment(1, 1, 7, Color(7, 7, 7)) >> }

\* what triangle() returns in the frame loop: nothing, or fragments inside the buffer
LoopRasterOutputs ==
  { <<>>,
    << Fragment(1, 1, 5, Color(255, 0, 0)),
       Fragment(1, 1, 3, Color(0, 255, 0)),
       Fragment(2 * FbWidth - 1, 2 * FbHeight - 1, 5, Color(0, 0, 255)) >> }

RECURSIVE rasterize(_, _, _)
\* Rasterization Stage: fragments.extend(triangle(..)) for each triangle, in order
rasterize(tris, raster, k) ==
  IF k > Len(tris) THEN <<>>
  ELSE raster[k] \o rasterize(tris, raster, k + 1)

\* `as usize` of an f32 given in half units: truncates toward zero, negative values give 0
as_usize(h) == IF h < 0 THEN 0 ELSE h \div 2

\* fragment_shader: the colour computed for a fragment
fragment_shader(fragment) == fragment.shaded

RECURSIVE fragment_stage(_, _, _, _)
\* Fragment Processing Stage from fragment k on: the framebuffer and the point calls
fragment_stage(fb, frags, k, calls) ==
  IF k > Len(frags) THEN [fb |-> fb, calls |-> calls]
  ELSE LET fragment == frags[k]
           x == as_usize(fragment.position[1])
           y == as_usize(fragment.position[2])
       IN IF x < fb.width /\ y < fb.height
          THEN LET shaded_color == fragment_shader(fragment)
                   color == to_hex(shaded_color)
                   fb1 == set_current_color(fb, color)
                   fb2 == point(fb1, x, y, fragment.depth)
               IN fragment_stage(fb2, frags, k + 1,
                                 Append(calls, [frag |-> k, x |-> x, y |-> y,
                                                depth |-> fragment.depth, color |-> color]))
          ELSE fragment_stage(fb, frags, k + 1, calls)

\* the mesh of n vertices, named 1..n in mesh order
Mesh(n) == [i \in 1..n |-> i]

\* what triangle() may return for the triangles of a vertex array, one output each
Rasterizers(va, outputs) ==
  [1..Len(primitive_assembly(vertex_stage(va))) -> outputs]

\* render(&mut framebuffer, &uniforms, &vertex_array, &planet_type), the
\* rasterizer returning raster[k] for the k-th triangle
render(fb, va, raster) ==
  LET transformed_vertices == vertex_stage(va)
      tris == primitive_assembly(transformed_vertices)
      frags == rasterize(tris, raster, 1)
      done == fragment_stage(fb, frags, 1, <<>>)
  IN [framebuffer |-> done.fb, vertex_array |-> va, triangles |-> tris,
      fragments |-> frags, point_calls |-> done.calls]

---------------------------------------------------------------------------
(* The parts of the program a specification leaves alone *)

\* main is not running
FrameIdle ==
  /\ pc = "done"
  /\ time = 0
  /\ keys = {}
  /\ moon_angle = 0
  /\ celestial_bodies = InitialBodies
  /\ body_index = 0
  /\ uniforms = InitialUniforms
  /\ drawn = <<>>
  /\ presented = <<>>
  /\ frameLog = <<>>

\* the camera API is not observed
CamObsIdle ==
  /\ lastOp = "new"
  /\ lastArg = <<>>
  /\ lastRet = FALSE
  /\ new_pitch = <<>>
  /\ nOps = 0

\* render has not been called
RenderIdle ==
  /\ framebuffer = InitialFramebuffer
  /\ vertex_array = <<>>
  /\ triangles = <<>>
  /\ fragments = <<>>
  /\ point_calls = <<>>
  /\ nRenders = 0

\* no Color method has been called
ColorIdle ==
  /\ color_a = Color(0, 0, 0)
  /\ color_b = Color(0, 0, 0)
  /\ hex = 0
  /\ hex_from = "input"
  /\ color_op = "none"
  /\ color_out = Color(0, 0, 0)

---------------------------------------------------------------------------
(* The camera API driven by an arbitrary caller *)

\* arguments the caller passes
DeltaYaws == {0, 785}
DeltaPitches == {-1000000, 1000}
ZoomDeltas == {zoom_speed, -zoom_speed}
Movements == {Vec3(FP \div 2, 0, 0), Vec3(0, 0, -(FP \div 2)), Vec3(-(FP \div 2), 0, FP \div 2)}
UpAmounts == {FP \div 2, -(FP \div 2)}
Angles == {63}

CamInit ==
  /\ camera = InitialCamera
  /\ lastOp = "new"
  /\ lastArg = <<>>
  /\ lastRet = FALSE
  /\ new_pitch = <<>>
  /\ nOps = 0
  /\ FrameIdle
  /\ RenderIdle
  /\ ColorIdle

Called(op, arg) ==
  /\ nOps < MaxOps
  /\ nOps' = nOps + 1
  /\ lastOp' = op
  /\ lastArg' = arg
  /\ UNCHANGED <<frameVars, renderVars, colorVars>>

Orbit ==
  \E dy \in DeltaYaws, dp \in DeltaPitches :
    /\ Called("orbit", <<dy, dp>>)
    /\ camera' = orbit(camera, dy, dp)
    /\ new_pitch' = IF IsNaN(camera.eye) THEN <<>> ELSE <<orbit_new_pitch(camera, dp)>>
    /\ UNCHANGED lastRet

Zoom ==
  \E d \in ZoomDeltas :
    /\ Called("zoom", <<d>>)
    /\ camera' = zoom(camera, d)
    /\ UNCHANGED <<lastRet, new_pitch>>

MoveCenter ==
  \E m \in Movements :
    /\ Called("move_center", m)
    /\ camera' = move_center(camera, m)
    /\ UNCHANGED <<lastRet, new_pitch>>

CheckIfChanged ==
  /\ Called("check_if_changed", <<>>)
  /\ camera' = check_if_changed(camera).cam
  /\ lastRet' = check_if_changed(camera).ret
  /\ UNCHANGED new_pitch

RotatePitch ==
  \E a \in Angles :
    /\ Called("rotate_pitch", <<a>>)
    /\ camera' = rotate_pitch(camera, a)
    /\ UNCHANGED <<lastRet, new_pitch>>

RotateYaw ==
  \E a \in Angles :
    /\ Called("rotate_yaw", <<a>>)
    /\ camera' = rotate_yaw(camera, a)
    /\ UNCHANGED <<lastRet, new_pitch>>

MoveUp ==
  \E a \in UpAmounts :
    /\ Called("move_up", <<a>>)
    /\ camera' = move_up(camera, a)
    /\ UNCHANGED <<lastRet, new_pitch>>

SetBirdEyeView ==
  /\ Called("set_bird_eye_view", <<>>)
  /\ camera' = set_bird_eye_view(camera)
  /\ UNCHANGED <<lastRet, new_pitch>>

CamNext ==
  \/ Orbit
  \/ Zoom
  \/ MoveCenter
  \/ CheckIfChanged
  \/ RotatePitch
  \/ RotateYaw
  \/ MoveUp
  \/ SetBirdEyeView

CameraSpec == CamInit /\ [][CamNext]_vars

---------------------------------------------------------------------------
(* main: the frame loop (main.rs:298-346) *)

Init ==
  /\ camera = InitialCamera
  /\ CamObsIdle
  /\ pc = "loop"
  /\ time = 0
  /\ keys = {}
  /\ moon_angle = 0
  /\ celestial_bodies = InitialBodies
  /\ body_index = 0
  /\ uniforms = InitialUniforms
  /\ drawn = <<>>
  /\ presented = <<>>
  /\ frameLog = <<>>
  /\ RenderIdle
  /\ ColorIdle

\* while window.is_open() { if window.is_key_down(Key::Escape) { break; } time += 1;
LoopEnter ==
  /\ pc = "loop"
  /\ time < MaxFrames
  /\ \E ks \in KeySets :
       /\ "Escape" \notin ks
       /\ keys' = ks
  /\ time' = time + 1
  /\ frameLog' = <<>>
  /\ pc' = "input"
  /\ UNCHANGED <<renderVars, colorVars, camera, camObs, moon_angle, celestial_bodies, body_index, uniforms,
                 drawn, presented>>

\* the window is closed, or Escape is down: the loop ends
LoopExit ==
  /\ pc = "loop"
  /\ \E open \in BOOLEAN, ks \in KeySets :
       /\ ~open \/ "Escape" \in ks
  /\ pc' = "done"
  /\ UNCHANGED <<renderVars, colorVars, camera, camObs, time, keys, moon_angle, celestial_bodies, body_index,
                 uniforms, drawn, presented, frameLog>>

\* handle_input(&window, &mut camera);
HandleInput ==
  /\ pc = "input"
  /\ camera' = handle_input(keys, camera)
  /\ frameLog' = Append(frameLog, "input")
  /\ pc' = "clear"
  /\ UNCHANGED <<renderVars, colorVars, camObs, time, keys, moon_angle, celestial_bodies, body_index, uniforms,
                 drawn, presented>>

\* framebuffer.clear();
Clear ==
  /\ pc = "clear"
  /\ drawn' = <<>>
  /\ frameLog' = Append(frameLog, "clear")
  /\ pc' = "moon"
  /\ framebuffer' = fb_clear(framebuffer)
  /\ UNCHANGED <<vertex_array, triangles, fragments, point_calls, nRenders>>
  /\ UNCHANGED <<colorVars, camera, camObs, time, keys, moon_angle, celestial_bodies, body_index,
                 uniforms, presented>>

\* moon_angle += moon_orbit_speed; the moon's position is reassigned
MoonUpdate ==
  /\ pc = "moon"
  /\ moon_angle' = moon_angle + moon_orbit_speed
  /\ celestial_bodies' =
       assign_moon(celestial_bodies, moon_position(celestial_bodies, moon_angle'))
  /\ body_index' = 1
  /\ pc' = IF Len(celestial_bodies) = 0 THEN "present" ELSE "render"
  /\ UNCHANGED <<renderVars, colorVars, camera, camObs, time, keys, uniforms, drawn, presented, frameLog>>

\* one pass of: for body in &celestial_bodies { uniforms...; render(...) }
RenderBody ==
  /\ pc = "render"
  /\ LET body == celestial_bodies[render_order(celestial_bodies, body_index)]
     IN /\ uniforms' = body_uniforms(body, camera, time)
        /\ drawn' = Append(drawn, body.shader_type)
        /\ frameLog' = Append(frameLog, body.shader_type)
  /\ \E raster \in Rasterizers(Mesh(MeshVerts), LoopRasterOutputs) :
       LET r == render(framebuffer, Mesh(MeshVerts), raster)
       IN /\ framebuffer' = r.framebuffer
          /\ vertex_array' = r.vertex_array
          /\ triangles' = r.triangles
          /\ fragments' = r.fragments
          /\ point_calls' = r.point_calls
  /\ body_index' = body_index + 1
  /\ pc' = IF body_index = Len(celestial_bodies) THEN "present" ELSE "render"
  /\ UNCHANGED <<nRenders, colorVars, camera, camObs, time, keys, moon_angle, celestial_bodies, presented>>

\* window.update_with_buffer(&framebuffer.buffer, ...)
Present ==
  /\ pc = "present"
  /\ presented' = drawn
  /\ frameLog' = Append(frameLog, "present")
  /\ pc' = "loop"
  /\ UNCHANGED <<renderVars, colorVars, camera, camObs, time, keys, moon_angle, celestial_bodies, body_index,
                 uniforms, drawn>>

Next ==
  \/ LoopEnter
  \/ LoopExit
  \/ HandleInput
  \/ Clear
  \/ MoonUpdate
  \/ RenderBody
  \/ Present

Spec == Init /\ [][Next]_vars

---------------------------------------------------------------------------
(* render called on meshes of every length, the rasterizer returning any of RasterOutputs *)

RenderInit ==
  /\ camera = InitialCamera
  /\ CamObsIdle
  /\ FrameIdle
  /\ RenderIdle
  /\ ColorIdle

\* render(&mut framebuffer, &uniforms, &vertex_array, &planet_type)
Render ==
  /\ nRenders < MaxRenders
  /\ \E n \in 0..MaxVerts :
       \E raster \in Rasterizers(Mesh(n), RasterOutputs) :
         LET r == render(framebuffer, Mesh(n), raster)
         IN /\ vertex_array' = r.vertex_array
            /\ triangles' = r.triangles
            /\ fragments' = r.fragments
            /\ framebuffer' = r.framebuffer
            /\ point_calls' = r.point_calls
  /\ nRenders' = nRenders + 1
  /\ UNCHANGED <<camera, camObs, frameVars, colorVars>>

\* framebuffer.clear() between two render calls
FbClear ==
  /\ nRenders > 0
  /\ nRenders < MaxRenders
  /\ framebuffer # fb_clear(framebuffer)
  /\ framebuffer' = fb_clear(framebuffer)
  /\ UNCHANGED <<vertex_array, triangles, fragments, point_calls, nRenders>>
  /\ UNCHANGED <<camera, camObs, frameVars, colorVars>>

RenderNext ==
  \/ Render
  \/ FbClear

RenderSpec == RenderInit /\ [][RenderNext]_vars

---------------------------------------------------------------------------
(* The Color methods applied to colours and hex values drawn from bounded sets *)

ChannelValues == (0..ChanEdge) \cup {127, 128} \cup ((255 - ChanEdge)..255)

\* hex inputs of from_hex below 2^31, one with bits above the 24 colour bits
HexInputs == {0, 1193046, 2141965807}

ColorInit ==
  /\ camera = InitialCamera
  /\ CamObsIdle
  /\ FrameIdle
  /\ RenderIdle
  /\ color_a \in {Color(r, g, b) : r \in ChannelValues, g \in ChannelValues, b \in ChannelValues}
  /\ color_b \in {Color(x, 255 - x, x) : x \in ChannelValues}
  /\ hex \in HexInputs
  /\ hex_from = "input"
  /\ color_op = "none"
  /\ color_out = Color(0, 0, 0)

ColorRest == UNCHANGED <<camera, camObs, frameVars, renderVars, color_a, color_b>>

BlendAdd ==
  /\ color_out' = blend_add(color_a, color_b)
  /\ color_op' = "blend_add"
  /\ UNCHANGED <<hex, hex_from>>
  /\ ColorRest

BlendSubtract ==
  /\ color_out' = blend_subtract(color_a, color_b)
  /\ color_op' = "blend_subtract"
  /\ UNCHANGED <<hex, hex_from>>
  /\ ColorRest

ToHex ==
  /\ hex' = to_hex(color_a)
  /\ hex_from' = "to_hex"
  /\ color_op' = "to_hex"
  /\ UNCHANGED color_out
  /\ ColorRest

FromHex ==
  /\ color_out' = from_hex(hex)
  /\ color_op' = "from_hex"
  /\ UNCHANGED <<hex, hex_from>>
  /\ ColorRest

ColorNext ==
  \/ BlendAdd
  \/ BlendSubtract
  \/ ToHex
  \/ FromHex

ColorSpec == ColorInit /\ [][ColorNext]_vars

---------------------------------------------------------------------------
(* main's frame loop followed over more iterations, the window reporting *)
(* the key states of PoseKeySets                                          *)

InputInit == Init

\* while window.is_open() { if window.is_key_down(Key::Escape) { break; } time += 1;
InputEnter ==
  /\ pc = "loop"
  /\ time < MaxInputFrames
  /\ \E ks \in PoseKeySets :
       /\ "Escape" \notin ks
       /\ keys' = ks
  /\ time' = time + 1
  /\ frameLog' = <<>>
  /\ pc' = "input"
  /\ UNCHANGED <<renderVars, colorVars, camera, camObs, moon_angle, celestial_bodies, body_index, uniforms,
                 drawn, presented>>

InputNext ==
  \/ InputEnter
  \/ LoopExit
  \/ HandleInput
  \/ Clear
  \/ MoonUpdate
  \/ RenderBody
  \/ Present

InputSpec == InputInit /\ [][InputNext]_vars

---------------------------------------------------------------------------
(* Claims about the camera API, checked under CameraSpec *)

MutatingOps == {"orbit", "zoom", "move_center", "move_up", "set_bird_eye_view"}

\* C1: every mutating camera operation (orbit, zoom, move_center, move_up,
\* set_bird_eye_view) sets the dirty flag: a check_if_changed() called right
\* after any one of them returns true, whatever the flag was before.
C1_MutationThenCheckReturnsTrue ==
  [][(lastOp \in MutatingOps /\ lastOp' = "check_if_changed") => lastRet' = TRUE]_vars

\* C2: check_if_changed() is a one-shot read-and-clear query: it returns the
\* flag's current value and leaves the flag false and eye, center, up as they
\* were; two consecutive calls never both return true; no other operation
\* takes the flag from true to false; the first query of a freshly constructed
\* camera returns true.
C2_CheckIsOneShotReadClear ==
  [][ /\ lastOp' = "check_if_changed" =>
           /\ lastRet' = camera.has_changed
           /\ camera'.has_changed = FALSE
           /\ camera'.eye = camera.eye
           /\ camera'.center = camera.center
           /\ camera'.up = camera.up
      /\ (lastOp = "check_if_changed" /\ lastOp' = "check_if_changed") =>
           ~(lastRet /\ lastRet')
      /\ (camera.has_changed /\ ~camera'.has_changed) => lastOp' = "check_if_changed"
      /\ (lastOp = "new" /\ lastOp' = "check_if_changed") => lastRet' = TRUE
    ]_vars

\* C2 witness: a second check_if_changed() right after a first one returned false
C2_Witness ==
  /\ lastOp = "check_if_changed"
  /\ nOps = 2
  /\ lastRet = FALSE
  /\ camera.has_changed = FALSE

\* C8: every orbit() of a camera with a finite eye rebuilds the eye from a
\* pitch strictly inside (-pi/2, pi/2), however large the delta-pitch values
\* add up to, and leaves a finite eye; orbit leaves center and up unchanged.
C8_OrbitPitchStrictlyInside ==
  [][ lastOp' = "orbit" =>
        /\ camera'.center = camera.center
        /\ camera'.up = camera.up
        /\ ~IsNaN(camera.eye) =>
             /\ Len(new_pitch') = 1
             /\ new_pitch'[1] > -HALF_PI
             /\ new_pitch'[1] < HALF_PI
             /\ ~IsNaN(camera'.eye)
    ]_vars

\* C8 witness: delta-pitch values adding up past pi/2 left the pitch at the clamp
C8_Witness ==
  /\ lastOp = "orbit"
  /\ nOps >= 2
  /\ new_pitch = <<PitchMax>>
  /\ orbit_current_pitch(camera) > HALF_PI - 2 * PitchMargin

\* C9: move_center(v) adds v to eye and to center, move_up(a) adds a to the y of
\* eye and of center; either leaves the offset eye - center and up as they were.
C9_PanMovesWholeRig ==
  [][ /\ lastOp' = "move_center" =>
           /\ camera'.center = VAdd(camera.center, lastArg')
           /\ camera'.eye = VAdd(camera.eye, lastArg')
      /\ lastOp' = "move_up" =>
           /\ camera'.center = VAdd(camera.center, Vec3(0, lastArg'[1], 0))
           /\ camera'.eye = VAdd(camera.eye, Vec3(0, lastArg'[1], 0))
      /\ lastOp' \in {"move_center", "move_up"} =>
           /\ VSub(camera'.eye, camera'.center) = VSub(camera.eye, camera.center)
           /\ camera'.up = camera.up
    ]_vars

\* C9 witness: after three pans the rig is elsewhere and the offset is the initial one
C9_Witness ==
  /\ lastOp = "move_up"
  /\ nOps = 3
  /\ camera.center # InitialCamera.center
  /\ camera.center[1] # 0
  /\ VSub(camera.eye, camera.center) = VSub(InitialCamera.eye, InitialCamera.center)

---------------------------------------------------------------------------
(* Claims about the frame loop, checked under Spec *)

IsPrefix(a, b) == Len(a) <= Len(b) /\ a = SubSeq(b, 1, Len(a))

\* the steps of one iteration, in the order the claim gives
ExpectedOrder ==
  <<"input", "clear",
    "Sun", "Asteroid", "RockyPlanet", "Earth", "CrystalPlanet", "FirePlanet",
    "WaterPlanet", "CloudPlanet", "Moon",
    "present">>

ExpectedBodies == SubSeq(ExpectedOrder, 3, 11)

\* C3: every iteration of the frame loop polls input and mutates the camera,
\* clears the framebuffer, renders every body exactly once in the order of the
\* body table, then presents; what is in the buffer was rendered after the
\* clear of the same iteration, what is presented is the nine bodies in
\* order, and the camera changes only in the input step, never between the
\* clear and the present.
C3_FrameStepOrder ==
  /\ [](/\ IsPrefix(frameLog, ExpectedOrder)
        /\ pc \in {"moon", "render", "present"} =>
             /\ Len(frameLog) >= 2
             /\ drawn = SubSeq(frameLog, 3, Len(frameLog))
        /\ pc = "present" => drawn = ExpectedBodies
        /\ (pc = "loop" /\ time > 0) =>
             /\ frameLog = ExpectedOrder
             /\ presented = ExpectedBodies)
  /\ [][camera' # camera => (pc = "input" /\ pc' = "clear")]_vars

\* C3 witness: the second iteration is complete and the camera has been moved
C3_Witness ==
  /\ pc = "loop"
  /\ time = 2
  /\ frameLog = ExpectedOrder
  /\ presented = ExpectedBodies
  /\ camera.eye # InitialCamera.eye

\* moon updates performed so far
MoonUpdates == IF pc \in {"input", "clear", "moon"} THEN time - 1 ELSE time

\* C10: the Moon's position is the only thing of the body table that changes:
\* the phase angle has grown by the orbit speed once per frame, the Moon's
\* position is the Earth's plus the orbit radius at that phase, and every
\* other position and every scale, rotation and material tag keeps its
\* initial value.
C10_OnlyMoonMoves ==
  /\ Len(celestial_bodies) = Len(InitialBodies)
  /\ \A i \in 1..Len(InitialBodies) :
       /\ celestial_bodies[i].scale = InitialBodies[i].scale
       /\ celestial_bodies[i].rotation = InitialBodies[i].rotation
       /\ celestial_bodies[i].shader_type = InitialBodies[i].shader_type
       /\ InitialBodies[i].shader_type # "Moon" =>
            celestial_bodies[i].position = InitialBodies[i].position
  /\ moon_angle = MoonUpdates * moon_orbit_speed
  /\ celestial_bodies[9].position =
       IF MoonUpdates = 0 THEN InitialBodies[9].position
       ELSE VAdd(InitialBodies[4].position,
                 Vec3(RDiv(moon_orbit_radius * Cos(moon_angle), AU), 0,
                      RDiv(moon_orbit_radius * Sin(moon_angle), AU)))

\* C10 witness: in the second frame the Moon is at phase 0.1 around the Earth
C10_Witness ==
  /\ pc = "present"
  /\ time = 2
  /\ moon_angle = 2 * moon_orbit_speed
  /\ celestial_bodies[9].position = Vec3(1399, 0, 20)
  /\ celestial_bodies[4].position = Vec3(1200, 0, 0)

---------------------------------------------------------------------------
(* Claims about render, checked under RenderSpec *)

\* a fragment position (in half pixels) inside the buffer: 0 <= x < width, 0 <= y < height
InBounds(position) ==
  /\ position[1] >= 0
  /\ position[2] >= 0
  /\ position[1] < 2 * framebuffer.width
  /\ position[2] < 2 * framebuffer.height

\* C4: a fragment whose coordinates lie outside the buffer (x < 0, y < 0,
\* x >= width or y >= height) causes no point call; exactly the fragments
\* inside the buffer are plotted, each at its own pixel.
C4_OutOfRangeFragmentsDiscarded ==
  /\ \A c \in 1..Len(point_calls) :
       InBounds(fragments[point_calls[c].frag].position)
  /\ \A k \in 1..Len(fragments) :
       InBounds(fragments[k].position) =>
         \E c \in 1..Len(point_calls) :
           /\ point_calls[c].frag = k
           /\ point_calls[c].x = fragments[k].position[1] \div 2
           /\ point_calls[c].y = fragments[k].position[2] \div 2

\* C5: primitive assembly groups the n transformed vertices into floor(n/3)
\* triangles, triangle k being vertices 3k, 3k+1, 3k+2 in mesh order; no
\* vertex is in two triangles and the trailing n mod 3 vertices are in none.
C5_AssemblyConsecutiveTriples ==
  LET n == Len(vertex_array)
      Uses(v) == {<<k, j>> \in (1..Len(triangles)) \X (1..3) :
                    triangles[k][j] = vertex_shader(vertex_array[v])}
  IN /\ Len(triangles) = n \div 3
     /\ \A k \in 0..(Len(triangles) - 1) :
          triangles[k + 1] = << vertex_shader(vertex_array[3 * k + 1]),
                                vertex_shader(vertex_array[3 * k + 2]),
                                vertex_shader(vertex_array[3 * k + 3]) >>
     /\ \A v \in 1..n : Cardinality(Uses(v)) <= 1
     /\ \A v \in (3 * (n \div 3) + 1)..n : Uses(v) = {}

\* C5 witness: seven vertices gave two triangles, the seventh vertex dropped
C5_Witness ==
  /\ nRenders > 0
  /\ Len(vertex_array) = 7
  /\ Len(triangles) = 2
  /\ triangles[2][3] = vertex_shader(6)

---------------------------------------------------------------------------
(* Claims about Color, checked under ColorSpec *)

Channels(c) == <<c.r, c.g, c.b>>

\* C6: blend_add returns min(a + b, 255) and blend_subtract returns
\* max(a - b, 0) in every channel, a value in 0..255 that is not a sum or
\* difference taken modulo 256.
C6_BlendSaturates ==
  \A i \in 1..3 :
    LET a == Channels(color_a)[i]
        b == Channels(color_b)[i]
        out == Channels(color_out)[i]
    IN /\ color_op = "blend_add" =>
            /\ out = (IF a + b > 255 THEN 255 ELSE a + b)
            /\ out >= a /\ out >= b /\ out <= 255
       /\ color_op = "blend_subtract" =>
            /\ out = (IF a - b < 0 THEN 0 ELSE a - b)
            /\ out <= a /\ out >= 0

\* C6 witness: a blend_add with one channel saturated at 255 and one not
C6_Witness ==
  /\ color_op = "blend_add"
  /\ color_a.r + color_b.r > 255
  /\ color_out.r = 255
  /\ color_a.g + color_b.g < 255
  /\ color_out.g = color_a.g + color_b.g
  /\ color_out.g > 0

\* C7: to_hex(c) fits in 24 bits with r in bits 16-23, g in bits 8-15 and b in
\* bits 0-7, and from_hex(to_hex(c)) has the r, g and b of c.
C7_HexRoundTrip ==
  /\ color_op = "to_hex" =>
       /\ hex >= 0
       /\ hex <= 16777215
       /\ hex \div 65536 = color_a.r
       /\ (hex \div 256) % 256 = color_a.g
       /\ hex % 256 = color_a.b
  /\ (color_op = "from_hex" /\ hex_from = "to_hex") =>
       /\ color_out.r = color_a.r
       /\ color_out.g = color_a.g
       /\ color_out.b = color_a.b

\* C7 witness: the colour (255, 1, 128) went through to_hex and from_hex
C7_Witness ==
  /\ color_op = "from_hex"
  /\ hex_from = "to_hex"
  /\ color_a = Color(255, 1, 128)
  /\ hex = 16712064
  /\ color_out = color_a

---------------------------------------------------------------------------
(* Claims about the key-driven camera, checked under InputSpec *)

\* C11: after any sequence of key-driven camera operations from the initial
\* pose the eye is finite and never coincides with the center, so the
\* eye-to-center direction that zoom normalises and look-at uses is defined.
C11_EyeNeverOnCenter ==
  /\ ~IsNaN(camera.eye)
  /\ camera.eye # camera.center

===========================================================================
